---- MODULE Spec2Model ----
(***************************************************************************)
(* Model of report.py: ReportGenerator.generate_report / create_graph and  *)
(* ReportSender.send_report.                                               *)
(*                                                                         *)
(* A Python str is modelled as a sequence of tokens (each token a TLA+     *)
(* string): a token is either a piece of plain text or one markup tag.     *)
(* An f-string interpolates a str by splicing its tokens in unchanged.     *)
(* html_content is kept as the list of the operands of its "+=" chunks;    *)
(* the str itself is their concatenation, Str(html_content).               *)
(***************************************************************************)
EXTENDS Integers, Sequences, FiniteSets, TLC

\* ---- bounds of the model ------------------------------------------------
MaxSections == 2
ConcMaxSections == 1
MaxClock == 1

\* ---- values -------------------------------------------------------------
\* Python None (what dict.get returns for an absent key).
NoneVal == "<None>"

\* The two invocations of generate_report that may be in progress.
Procs == {1, 2}

\* Section names (dict keys): plain ones, and one that carries markup.
SectionNames ==
  { <<"Sales">>, <<"Stock">>, <<"Q1", "</h2>", "<h2>", "Q2">> }

\* The DataFrames: only their column labels matter to generate_report.
SalesFrame == [columns |-> <<"Date", "Revenue", "">>]

\* section_data dicts.  has_data: the 'data' key is there; graph_type,
\* x_col, y_col: the value .get() finds, NoneVal when the key is absent.
SectionData(has, gt, x, y) ==
  [has_data |-> has, data |-> SalesFrame, graph_type |-> gt, x_col |-> x, y_col |-> y]

SectionConfigs ==
  { SectionData(TRUE, NoneVal, NoneVal, NoneVal),
    SectionData(TRUE, NoneVal, "Date", NoneVal),
    SectionData(TRUE, "bar", NoneVal, "Revenue"),
    SectionData(TRUE, NoneVal, "Date", "Revenue"),
    SectionData(TRUE, "bar", "Date", "Revenue"),
    SectionData(TRUE, "pie", "Date", "Revenue"),
    SectionData(TRUE, "line", "", "Revenue"),
    SectionData(TRUE, "line", "Nope", "Revenue"),
    SectionData(TRUE, "bar", "Date", "Nope"),
    SectionData(TRUE, "line", "Nope", NoneVal),
    SectionData(TRUE, "pie", "Nope", "Revenue"),
    SectionData(FALSE, NoneVal, NoneVal, NoneVal) }

ConcConfigs ==
  { SectionData(TRUE, NoneVal, NoneVal, NoneVal),
    SectionData(TRUE, "bar", "Date", "Revenue"),
    SectionData(TRUE, "pie", "Date", "Revenue") }

\* The section names of the concurrent invocations.
ConcNames == { <<"Sales">>, <<"Q1", "</h2>", "<h2>", "Q2">> }

\* data_dict: an ordered mapping, i.e. a sequence of items with distinct keys.
Reports(names, configs, n) ==
  { d \in UNION { [1..k -> [name : names, section_data : configs]] : k \in 0..n } :
      \A a, b \in DOMAIN d : a # b => d[a].name # d[b].name }

\* Paths in the file system.
DefaultPath == <<"report.html">>
OtherPath == <<"business_report.html">>
Paths == {DefaultPath, OtherPath}

NoFile == [exists |-> FALSE, content |-> <<>>]
OldFile == [exists |-> TRUE, content |-> <<"<html>", "old", "</html>">>]

VARIABLES
  fs,            \* the file system: path -> [exists, content]
  fs0,           \* the file system before the invocations started
  now,           \* the wall clock, in minutes
  data_dict,     \* per invocation: the data_dict argument
  output_path,   \* per invocation: the output_path argument
  pc,            \* per invocation: position in generate_report
  idx,           \* per invocation: index of the next item of data_dict.items()
  html_content,  \* per invocation: the local html_content, as its chunks
  stamp,         \* per invocation: the value datetime.now() returned
  raised,        \* per invocation: the exception that ended it, "none" if none
  ret,           \* per invocation: the returned value (a str), <<>> before return
  report_path,   \* send_report: the report_path argument
  s_pc,          \* send_report: position
  s_html,        \* send_report: the local html_content read from the file
  s_raised,      \* send_report: the exception that ended it, "none" if none
  session,       \* the SMTP_SSL connection: "none", "connected", "authenticated", "closed"
  reads,         \* open(report_path, 'r') calls
  connects,      \* connections opened to the relay
  logins,        \* server.login calls
  transmits,     \* server.send_message calls
  sent           \* the bodies the relay accepted

gvars == <<data_dict, output_path, pc, idx, html_content, stamp, raised, ret>>
svars == <<report_path, s_pc, s_html, s_raised, session, reads, connects, logins, transmits, sent>>
vars == <<fs, fs0, now, gvars, svars>>

\* ---- pure functions -----------------------------------------------------
\* Python truth value of a value that is None or a str.
Truthy(v) == v # NoneVal /\ v # ""

\* The set of the elements of a sequence.
Range(s) == { s[k] : k \in DOMAIN s }

RECURSIVE Concat(_)
\* The concatenation of a sequence of strs.
Concat(ss) == IF ss = <<>> THEN <<>> ELSE Head(ss) \o Concat(Tail(ss))

\* The str that html_content holds: its chunks, joined.
Str(chunks) == Concat([k \in DOMAIN chunks |-> chunks[k].text])

\* pandas escapes <, > and & in the labels and cells it renders (escape=True).
HtmlEscape(t) ==
  CASE t = "<h2>" -> "&lt;h2&gt;"
    [] t = "</h2>" -> "&lt;/h2&gt;"
    [] OTHER -> t

\* plotly serialises the figure as JSON inside a script, with < and > as \u003c, \u003e.
JsonEscape(t) ==
  CASE t = "<h2>" -> "\\u003ch2\\u003e"
    [] t = "</h2>" -> "\\u003c/h2\\u003e"
    [] OTHER -> t

\* datetime.now().strftime('%Y-%m-%d %H:%M')
Strftime(t) ==
  CASE t = 0 -> "2024-01-31 09:00"
    [] t = 1 -> "2024-01-31 09:01"
    [] t = 2 -> "2024-01-31 09:02"
    [] OTHER -> "2024-01-31 09:03"

\* df.to_html(index=False, classes='table'): a header cell per column label.
ToHtml(df) ==
  <<"<table class=dataframe-table>">>
    \o Concat([k \in DOMAIN df.columns |-> <<"<th>", HtmlEscape(df.columns[k]), "</th>">>])
    \o <<"</table>">>

\* px.line / px.bar: a ValueError when x or y is not the name of a column.
PxFigure(data, x_col, y_col, title, kind) ==
  IF x_col \in Range(data.columns) /\ y_col \in Range(data.columns)
  THEN [raised |-> "none",
        html |-> <<"<div>", "<script>", "plotly.js", kind, x_col, y_col>>
                   \o [k \in DOMAIN title |-> JsonEscape(title[k])]
                   \o <<"</script>", "</div>">>]
  ELSE [raised |-> "ValueError", html |-> <<>>]

\* create_graph: fig is bound only for 'line' and 'bar'; fig.update_layout on
\* the unbound local raises UnboundLocalError.
create_graph(data, x_col, y_col, title, graph_type) ==
  IF graph_type = "line" THEN PxFigure(data, x_col, y_col, title, "line")
  ELSE IF graph_type = "bar" THEN PxFigure(data, x_col, y_col, title, "bar")
  ELSE [raised |-> "UnboundLocalError", html |-> <<>>]

\* section_data.get('graph_type', 'line')
GetGraphType(section_data) ==
  IF section_data.graph_type = NoneVal THEN "line" ELSE section_data.graph_type

\* The chunks generate_report appends.
HeaderChunk(t) ==
  [tpl |-> "header",
   text |-> <<"<html>", "<head>", "<style>", "</head>", "<body>", "<div class=container>",
              "<h1>", "Business Performance Report", "</h1>",
              "<p>", "Generated on: ", Strftime(t), "</p>">>]

HeadingChunk(section_name) ==
  [tpl |-> "heading",
   text |-> <<"<div class=section>", "<h2>">> \o section_name \o <<"</h2>">>]

GraphChunk(graph_html) ==
  [tpl |-> "graph",
   text |-> <<"<div class=graph-container>">> \o graph_html \o <<"</div>">>]

TableChunk(df) ==
  [tpl |-> "table",
   text |-> <<"<div class=table-container>">> \o ToHtml(df) \o <<"</div>", "</div>">>]

FooterChunk ==
  [tpl |-> "footer", text |-> <<"</div>", "</body>", "</html>">>]

\* The guard of the graph branch: "if x_col and y_col".
WantsGraph(section_data) == Truthy(section_data.x_col) /\ Truthy(section_data.y_col)

\* LoopBody with the table appended in an else branch of the graph test.
LoopBodyTableInElse(section_name, section_data) ==
  IF ~section_data.has_data
  THEN [raised |-> "KeyError", chunks |-> <<>>]
  ELSE LET df == section_data.data
           heading == HeadingChunk(section_name)
       IN IF WantsGraph(section_data)
          THEN LET g == create_graph(df, section_data.x_col, section_data.y_col,
                                     section_name, GetGraphType(section_data))
               IN IF g.raised # "none"
                  THEN [raised |-> g.raised, chunks |-> <<heading>>]
                  ELSE [raised |-> "none", chunks |-> <<heading, GraphChunk(g.html)>>]
          ELSE [raised |-> "none", chunks |-> <<heading, TableChunk(df)>>]

\* One iteration of the for loop over data_dict.items(): the exception it
\* raises ("none" if none) and the chunks appended before it ended.
LoopBody(section_name, section_data) ==
  IF ~section_data.has_data
  THEN [raised |-> "KeyError", chunks |-> <<>>]
  ELSE LET df == section_data.data
           graph_type == GetGraphType(section_data)
           x_col == section_data.x_col
           y_col == section_data.y_col
           heading == HeadingChunk(section_name)
       IN IF WantsGraph(section_data)
          THEN LET g == create_graph(df, x_col, y_col, section_name, graph_type)
               IN IF g.raised # "none"
                  THEN [raised |-> g.raised, chunks |-> <<heading>>]
                  ELSE [raised |-> "none",
                        chunks |-> <<heading, GraphChunk(g.html), TableChunk(df)>>]
          ELSE [raised |-> "none", chunks |-> <<heading, TableChunk(df)>>]


\* ---- generate_report ----------------------------------------------------
\* The wall clock advances.
Tick ==
  /\ now < MaxClock
  /\ now' = now + 1
  /\ UNCHANGED <<fs, fs0, gvars, svars>>

\* html_content = f"""<html> ... Generated on: {datetime.now()...}"""
Header(p) ==
  /\ pc[p] = "start"
  /\ stamp' = [stamp EXCEPT ![p] = now]
  /\ html_content' = [html_content EXCEPT ![p] = <<HeaderChunk(now)>>]
  /\ idx' = [idx EXCEPT ![p] = 1]
  /\ pc' = [pc EXCEPT ![p] = "loop"]
  /\ UNCHANGED <<fs, fs0, now, data_dict, output_path, raised, ret, svars>>

\* One iteration of "for section_name, section_data in data_dict.items()".
Section(p) ==
  /\ pc[p] = "loop"
  /\ idx[p] <= Len(data_dict[p])
  /\ LET item == data_dict[p][idx[p]]
         body == LoopBody(item.name, item.section_data)
     IN /\ html_content' = [html_content EXCEPT ![p] = @ \o body.chunks]
        /\ IF body.raised = "none"
           THEN /\ idx' = [idx EXCEPT ![p] = @ + 1]
                /\ UNCHANGED <<pc, raised>>
           ELSE /\ raised' = [raised EXCEPT ![p] = body.raised]
                /\ pc' = [pc EXCEPT ![p] = "done"]
                /\ UNCHANGED idx
  /\ UNCHANGED <<fs, fs0, now, data_dict, output_path, stamp, ret, svars>>

\* The loop is exhausted: html_content += """</div></body></html>"""
Footer(p) ==
  /\ pc[p] = "loop"
  /\ idx[p] > Len(data_dict[p])
  /\ html_content' = [html_content EXCEPT ![p] = Append(@, FooterChunk)]
  /\ pc' = [pc EXCEPT ![p] = "open"]
  /\ UNCHANGED <<fs, fs0, now, data_dict, output_path, idx, stamp, raised, ret, svars>>

\* OpenTarget with the path argument ignored for the default.
OpenDefaultTarget(p) == DefaultPath

\* The file that open(output_path, 'w') opens.
OpenTarget(p) == output_path[p]

\* OpenForWriting with mode 'a': what the file held stays in front.
OpenForAppending(file) == [exists |-> TRUE, content |-> file.content]

\* Mode 'w': the file is created if missing and truncated to nothing.
OpenForWriting(file) == [exists |-> TRUE, content |-> <<>>]

\* open(output_path, 'w', encoding='utf-8'): succeeds, or raises OSError
\* (path not writable) and leaves the file system alone.
OpenFile(p) ==
  /\ pc[p] = "open"
  /\ \/ /\ fs' = [fs EXCEPT ![OpenTarget(p)] = OpenForWriting(@)]
        /\ pc' = [pc EXCEPT ![p] = "write"]
        /\ UNCHANGED raised
     \/ /\ raised' = [raised EXCEPT ![p] = "OSError"]
        /\ pc' = [pc EXCEPT ![p] = "done"]
        /\ UNCHANGED fs
  /\ UNCHANGED <<fs0, now, data_dict, output_path, idx, html_content, stamp, ret, svars>>

\* What generate_report returns.
ReturnValue(p) == output_path[p]

\* f.write(html_content), the close at the end of the with block, and the
\* return; or the write fails with OSError part of the way (device full,
\* I/O error) and the file keeps what had reached it.
WriteFile(p) ==
  /\ pc[p] = "write"
  /\ LET text == Str(html_content[p])
     IN \/ /\ fs' = [fs EXCEPT ![OpenTarget(p)].content = @ \o text]
           /\ ret' = [ret EXCEPT ![p] = ReturnValue(p)]
           /\ UNCHANGED raised
        \/ /\ \E k \in {0, Len(text) \div 2} :
                fs' = [fs EXCEPT ![OpenTarget(p)].content = @ \o SubSeq(text, 1, k)]
           /\ raised' = [raised EXCEPT ![p] = "OSError"]
           /\ UNCHANGED ret
  /\ pc' = [pc EXCEPT ![p] = "done"]
  /\ UNCHANGED <<fs0, now, data_dict, output_path, idx, html_content, stamp, svars>>


\* ---- send_report --------------------------------------------------------
\* SendReadFile with the missing file tolerated: an empty body is sent.
SendReadFileLenient ==
  /\ s_pc = "start"
  /\ reads' = reads + 1
  /\ s_html' = IF fs[report_path].exists THEN fs[report_path].content ELSE <<>>
  /\ s_pc' = "connect"
  /\ UNCHANGED <<fs, fs0, now, gvars, report_path, s_raised, session, connects, logins,
                 transmits, sent>>

\* with open(report_path, 'r', encoding='utf-8') as f: html_content = f.read()
\* and the MIME message built around it; FileNotFoundError if there is no file.
SendReadFile ==
  /\ s_pc = "start"
  /\ reads' = reads + 1
  /\ IF fs[report_path].exists
     THEN /\ s_html' = fs[report_path].content
          /\ s_pc' = "connect"
          /\ UNCHANGED s_raised
     ELSE /\ s_raised' = "FileNotFoundError"
          /\ s_pc' = "done"
          /\ UNCHANGED s_html
  /\ UNCHANGED <<fs, fs0, now, gvars, report_path, session, connects, logins, transmits, sent>>

\* smtplib.SMTP_SSL('smtp.gmail.com', 465): the constructor connects, or
\* raises (OSError and its kin) and the with block is never entered.
SendConnect ==
  /\ s_pc = "connect"
  /\ connects' = connects + 1
  /\ \/ /\ session' = "connected"
        /\ s_pc' = "login"
        /\ UNCHANGED s_raised
     \/ /\ s_raised' = "OSError"
        /\ s_pc' = "done"
        /\ UNCHANGED session
  /\ UNCHANGED <<fs, fs0, now, gvars, report_path, s_html, reads, logins, transmits, sent>>

\* SendLogin with the authentication failure swallowed.
SendLoginSwallowed ==
  /\ s_pc = "login"
  /\ logins' = logins + 1
  /\ \/ session' = "authenticated"
     \/ UNCHANGED session
  /\ s_pc' = "send"
  /\ UNCHANGED <<fs, fs0, now, gvars, report_path, s_html, s_raised, reads, connects,
                 transmits, sent>>

\* server.login(sender_email, sender_password): on failure the exception
\* leaves the with block, whose exit closes the connection.
SendLogin ==
  /\ s_pc = "login"
  /\ logins' = logins + 1
  /\ \/ /\ session' = "authenticated"
        /\ s_pc' = "send"
        /\ UNCHANGED s_raised
     \/ /\ s_raised' = "SMTPAuthenticationError"
        /\ session' = "closed"
        /\ s_pc' = "done"
  /\ UNCHANGED <<fs, fs0, now, gvars, report_path, s_html, reads, connects, transmits, sent>>

\* server.send_message(msg): accepted by the relay, or refused.
SendMessage ==
  /\ s_pc = "send"
  /\ transmits' = transmits + 1
  /\ \/ /\ sent' = Append(sent, s_html)
        /\ s_pc' = "quit"
        /\ UNCHANGED <<s_raised, session>>
     \/ /\ s_raised' = "SMTPException"
        /\ session' = "closed"
        /\ s_pc' = "done"
        /\ UNCHANGED sent
  /\ UNCHANGED <<fs, fs0, now, gvars, report_path, s_html, reads, connects, logins>>

\* The end of the with block: QUIT and close; send_report returns None.
SendQuit ==
  /\ s_pc = "quit"
  /\ session' = "closed"
  /\ s_pc' = "done"
  /\ UNCHANGED <<fs, fs0, now, gvars, report_path, s_html, s_raised, reads, connects, logins, transmits, sent>>

\* ---- specifications -----------------------------------------------------
FileSystems == [Paths -> {NoFile, OldFile}]

SenderIdle ==
  /\ report_path = DefaultPath
  /\ s_pc = "idle"
  /\ s_html = <<>>
  /\ s_raised = "none"
  /\ session = "none"
  /\ reads = 0
  /\ connects = 0
  /\ logins = 0
  /\ transmits = 0
  /\ sent = <<>>

\* One generate_report invocation (process 1), on any report and path.
Init ==
  /\ fs \in FileSystems
  /\ fs0 = fs
  /\ now = 0
  /\ \E d \in Reports(SectionNames, SectionConfigs, MaxSections) : data_dict = [p \in Procs |-> IF p = 1 THEN d ELSE <<>>]
  /\ \E path \in Paths : output_path = [p \in Procs |-> path]
  /\ pc = [p \in Procs |-> IF p = 1 THEN "start" ELSE "idle"]
  /\ idx = [p \in Procs |-> 0]
  /\ html_content = [p \in Procs |-> <<>>]
  /\ stamp = [p \in Procs |-> 0]
  /\ raised = [p \in Procs |-> "none"]
  /\ ret = [p \in Procs |-> <<>>]
  /\ SenderIdle

Next ==
  \/ Tick
  \/ \E p \in Procs : Header(p)
  \/ \E p \in Procs : Section(p)
  \/ \E p \in Procs : Footer(p)
  \/ \E p \in Procs : OpenFile(p)
  \/ \E p \in Procs : WriteFile(p)

Spec == Init /\ [][Next]_vars

\* Two generate_report invocations in progress at once, on distinct paths.
InitConc ==
  /\ fs \in FileSystems
  /\ fs0 = fs
  /\ now = 0
  /\ data_dict \in [Procs -> Reports(ConcNames, ConcConfigs, ConcMaxSections)]
  /\ output_path = [p \in Procs |-> IF p = 1 THEN DefaultPath ELSE OtherPath]
  /\ pc = [p \in Procs |-> "start"]
  /\ idx = [p \in Procs |-> 0]
  /\ html_content = [p \in Procs |-> <<>>]
  /\ stamp = [p \in Procs |-> 0]
  /\ raised = [p \in Procs |-> "none"]
  /\ ret = [p \in Procs |-> <<>>]
  /\ SenderIdle

SpecConc == InitConc /\ [][Next]_vars

\* One send_report invocation, on a file system that generate_report left.
NewFile == [exists |-> TRUE, content |-> Str(<<HeaderChunk(0), FooterChunk>>)]

InitSend ==
  /\ fs \in [Paths -> {NoFile, OldFile, NewFile}]
  /\ fs0 = fs
  /\ now = 0
  /\ data_dict = [p \in Procs |-> <<>>]
  /\ output_path = [p \in Procs |-> DefaultPath]
  /\ pc = [p \in Procs |-> "idle"]
  /\ idx = [p \in Procs |-> 0]
  /\ html_content = [p \in Procs |-> <<>>]
  /\ stamp = [p \in Procs |-> 0]
  /\ raised = [p \in Procs |-> "none"]
  /\ ret = [p \in Procs |-> <<>>]
  /\ report_path \in Paths
  /\ s_pc = "start"
  /\ s_html = <<>>
  /\ s_raised = "none"
  /\ session = "none"
  /\ reads = 0
  /\ connects = 0
  /\ logins = 0
  /\ transmits = 0
  /\ sent = <<>>

NextSend ==
  \/ SendReadFile
  \/ SendConnect
  \/ SendLogin
  \/ SendMessage
  \/ SendQuit

SpecSend == InitSend /\ [][NextSend]_vars

\* ---- the claims ---------------------------------------------------------
Done(p) == pc[p] = "done"
Succeeded(p) == Done(p) /\ raised[p] = "none"
OutputFile(p) == fs[output_path[p]]
NamesOf(d) == [k \in DOMAIN d |-> d[k].name]

RECURSIVE ScanH2(_, _, _, _)
\* The texts of the h2 elements of a document, in document order.
ScanH2(doc, inside, cur, acc) ==
  IF doc = <<>> THEN acc
  ELSE LET t == Head(doc)
       IN IF t = "<h2>" THEN ScanH2(Tail(doc), TRUE, <<>>, acc)
          ELSE IF t = "</h2>" /\ inside THEN ScanH2(Tail(doc), FALSE, <<>>, Append(acc, cur))
          ELSE IF inside THEN ScanH2(Tail(doc), TRUE, Append(cur, t), acc)
          ELSE ScanH2(Tail(doc), FALSE, <<>>, acc)

HeadingTexts(doc) == ScanH2(doc, FALSE, <<>>, <<>>)

RECURSIVE Keep(_, _)
\* The tokens of a document that belong to a set, in document order.
Keep(doc, toks) ==
  IF doc = <<>> THEN <<>>
  ELSE IF Head(doc) \in toks THEN <<Head(doc)>> \o Keep(Tail(doc), toks)
  ELSE Keep(Tail(doc), toks)

\* C1: the document of a successful build has exactly one h2 element per
\* section, their texts the section names, in the order of data_dict.
C1_HeadingsAreNames ==
  Succeeded(1) => HeadingTexts(OutputFile(1).content) = NamesOf(data_dict[1])

\* x_col and y_col are both given (each names something, whatever it is).
BothPresent(sd) == sd.x_col # NoneVal /\ sd.y_col # NoneVal

\* C2: in the document of a successful build every section with both x_col
\* and y_col present has one chart container and every other section none.
C2_ChartPerSection ==
  Succeeded(1) =>
    Keep(OutputFile(1).content, {"<div class=section>", "<div class=graph-container>"})
      = Concat([k \in DOMAIN data_dict[1] |->
                 IF BothPresent(data_dict[1][k].section_data)
                 THEN <<"<div class=section>", "<div class=graph-container>">>
                 ELSE <<"<div class=section>">>])

\* The build got as far as the k-th section.
Reached(k) == k \in DOMAIN data_dict[1] /\ idx[1] >= k

UnsupportedKind(sd) ==
  BothPresent(sd) /\ GetGraphType(sd) \notin {"line", "bar"}

\* C3: a build that reaches a section with both columns and a graph_type
\* that is neither line nor bar ends with an error raised to report the
\* unsupported kind, and the file at output_path is as it was.
C3_UnsupportedKindError ==
  \A k \in 1..Len(data_dict[1]) :
    (Done(1) /\ Reached(k) /\ UnsupportedKind(data_dict[1][k].section_data))
      => /\ raised[1] \in {"UnsupportedChartKind", "ValueError", "NotImplementedError"}
         /\ OutputFile(1) = fs0[output_path[1]]

\* C4: a build that fails, at whatever step, leaves the file at output_path
\* exactly as it was before the build (absent if it was absent).
C4_FailedBuildLeavesFile ==
  (Done(1) /\ raised[1] # "none") => OutputFile(1) = fs0[output_path[1]]

DeclaresMissingColumn(sd) ==
  /\ sd.has_data
  /\ \/ sd.x_col # NoneVal /\ sd.x_col \notin Range(sd.data.columns)
     \/ sd.y_col # NoneVal /\ sd.y_col \notin Range(sd.data.columns)

\* C7: a build that reaches a section declaring an x_col or y_col that is no
\* column of its table ends with the missing-column error (the ValueError
\* of the charting library), wherever the section stands.  Stated for the
\* sections whose chart kind is supported, where C3's error is not in the way.
C7_MissingColumnError ==
  \A k \in 1..Len(data_dict[1]) :
    (/\ Done(1)
     /\ Reached(k)
     /\ DeclaresMissingColumn(data_dict[1][k].section_data)
     /\ GetGraphType(data_dict[1][k].section_data) \in {"line", "bar"})
      => raised[1] = "ValueError"

\* C6 as stated: a successful build returns the HTML string, and the file
\* holds that string.
C6_ReturnsHtml ==
  Succeeded(1) =>
    /\ ret[1] = Str(html_content[1])
    /\ OutputFile(1) = [exists |-> TRUE, content |-> Str(html_content[1])]

\* C6: a successful build returns output_path, and the file at output_path
\* holds exactly the HTML string, whatever the file held before.
C6_ReturnsPathFileHoldsHtml ==
  Succeeded(1) =>
    /\ ret[1] = output_path[1]
    /\ OutputFile(1) = [exists |-> TRUE, content |-> Str(html_content[1])]

C6_Witness ==
  /\ Succeeded(1)
  /\ output_path[1] = DefaultPath
  /\ fs0[DefaultPath] = OldFile
  /\ Len(data_dict[1]) = 2
  /\ OutputFile(1).content # OldFile.content

\* The build has appended the footer.
Assembled(p) ==
  \/ pc[p] \in {"open", "write"}
  \/ Done(p) /\ raised[p] \in {"none", "OSError"}

Templates(chunks) == [k \in DOMAIN chunks |-> chunks[k].tpl]

\* C9: what a build appends is the header once, then for each section in
\* turn a heading, at most one chart container and one table container in
\* that order, then the footer once; so too for a report of no sections.
C9_EmissionOrder ==
  Assembled(1) =>
    \E g \in [DOMAIN data_dict[1] -> BOOLEAN] :
      Templates(html_content[1])
        = <<"header">>
            \o Concat([k \in DOMAIN data_dict[1] |->
                 IF g[k] THEN <<"heading", "graph", "table">> ELSE <<"heading", "table">>])
            \o <<"footer">>

C9_Witness ==
  /\ Succeeded(1)
  /\ Templates(html_content[1])
       = <<"header", "heading", "graph", "table", "heading", "table", "footer">>

\* C5: send_report on a report_path with no file ends with the file-read
\* error (FileNotFoundError), and no connection to the relay was opened.
C5_NoFileNoConnect ==
  (s_pc = "done" /\ ~fs[report_path].exists)
    => /\ s_raised = "FileNotFoundError"
       /\ connects = 0
       /\ session = "none"

C5_Witness ==
  /\ s_pc = "done"
  /\ ~fs[report_path].exists
  /\ reads = 1
  /\ s_raised = "FileNotFoundError"

\* C10: in one send_report the file is read before the connection is
\* opened, login is called on the open connection, the message is
\* transmitted only on the authenticated connection; an error ends the
\* invocation with that error and nothing is attempted after it; and there
\* is at most one read, one connection, one login and one transmission.
C10_SendOrder ==
  /\ [](/\ reads <= 1 /\ connects <= 1 /\ logins <= 1 /\ transmits <= 1
        /\ s_raised # "none" => s_pc = "done"
        /\ Len(sent) <= transmits)
  /\ [][/\ connects' > connects => reads = 1 /\ s_raised = "none" /\ session = "none"
        /\ logins' > logins => session = "connected" /\ s_raised = "none"
        /\ transmits' > transmits => session = "authenticated" /\ s_raised = "none"
        /\ s_raised # "none" => UNCHANGED <<s_raised, reads, connects, logins, transmits, sent>>
       ]_vars

C10_Witness ==
  /\ s_pc = "done"
  /\ s_raised = "none"
  /\ reads = 1 /\ connects = 1 /\ logins = 1 /\ transmits = 1
  /\ sent = <<fs[report_path].content>>
  /\ session = "closed"

RECURSIVE RenderFrom(_, _)
\* generate_report's loop run on its own: the exception of the first
\* section that raises ("none" if none does) and the chunks appended.
RenderFrom(d, k) ==
  IF k > Len(d) THEN [raised |-> "none", chunks |-> <<FooterChunk>>]
  ELSE LET body == LoopBody(d[k].name, d[k].section_data)
       IN IF body.raised # "none" THEN [raised |-> body.raised, chunks |-> body.chunks]
          ELSE LET rest == RenderFrom(d, k + 1)
               IN [raised |-> rest.raised, chunks |-> body.chunks \o rest.chunks]

\* What the invocation p produces when nothing else runs: from its own
\* arguments, the clock value it read and the file that was at its path.
AloneDoc(p) == Str(<<HeaderChunk(stamp[p])>> \o RenderFrom(data_dict[p], 1).chunks)
AloneRaised(p) == RenderFrom(data_dict[p], 1).raised

IsPrefix(a, b) == Len(a) <= Len(b) /\ a = SubSeq(b, 1, Len(a))

\* C8: with two invocations interleaved on distinct paths, each one's
\* result and the file at its path are those of the invocation run alone:
\* the file is untouched until the invocation opens it, and at the end the
\* error, the returned path and the file's content follow from its own
\* arguments alone.
C8_Independent ==
  \A p \in Procs :
    /\ pc[p] \in {"start", "loop", "open"} => OutputFile(p) = fs0[output_path[p]]
    /\ Done(p) =>
         IF AloneRaised(p) # "none"
         THEN raised[p] = AloneRaised(p) /\ ret[p] = <<>> /\ OutputFile(p) = fs0[output_path[p]]
         ELSE \/ /\ raised[p] = "none"
                 /\ ret[p] = output_path[p]
                 /\ OutputFile(p) = [exists |-> TRUE, content |-> AloneDoc(p)]
              \/ /\ raised[p] = "OSError"
                 /\ ret[p] = <<>>
                 /\ \/ OutputFile(p) = fs0[output_path[p]]
                    \/ OutputFile(p).exists /\ IsPrefix(OutputFile(p).content, AloneDoc(p))

C8_Witness ==
  /\ Succeeded(1) /\ Succeeded(2)
  /\ stamp[1] # stamp[2]
  /\ data_dict[1] # data_dict[2]
  /\ Len(data_dict[1]) > 0 /\ Len(data_dict[2]) > 0
  /\ OutputFile(1).content # OutputFile(2).content

====
